---- MODULE Spec2Model ----
(***************************************************************************)
(* A model of kctx.py (src/k8s/kctx.py): a helper around `kubectl config`  *)
(* that switches contexts, remembers the last used context in a state file *)
(* and warns about contexts labelled "prod".                               *)
(*                                                                         *)
(* Every invocation of the tool is a process.  A process step is one       *)
(* blocking call of the code: one kubectl subprocess or one file           *)
(* operation.  Strings that the code takes apart (context names written    *)
(* into the state file, environment labels that are lower-cased) are       *)
(* sequences of one-character strings.                                     *)
(***************************************************************************)
EXTENDS Naturals, Sequences, FiniteSets, TLC

VARIABLES
    ctxs,     \* kubectl: the set of context names of the kubeconfig
    kcur,     \* kubectl: the current-context field (None when unset)
    file,     \* state.json: [exists, text]
    config,   \* config.toml, never written by the tool
    pc,       \* pc[p]: the call invocation p is about to make
    loc,      \* loc[p]: the local variables of invocation p
    pre,      \* pre[p]: what the world was when invocation p started (history)
    writer    \* the invocation whose save_state wrote the state file last (history)

vars == <<ctxs, kcur, file, config, pc, loc, pre, writer>>

----------------------------------------------------------------------------
(* Names and bounds *)

NumNames == 3

MaxMembers == 2

AllNames == << <<"a">>, <<"b", "b">>, <<"c">>, <<"d", "d">>, <<"e">> >>

Names == {AllNames[i] : i \in 1..NumNames}

None == <<>>

Dash == <<"-">>

Procs == {"p1", "p2"}

SeqProcs == {"p1"}

EnvProd == <<"p", "r", "o", "d">>

EnvProdMixed == <<"P", "r", "o", "D">>

EnvDev == <<"d", "e", "v">>

EnvProduction == <<"p", "r", "o", "d", "u", "c", "t", "i", "o", "n">>

----------------------------------------------------------------------------
(* Dictionaries: a dict is a set of <<key, value>> pairs, one per key *)

DictHas(d, k) == \E kv \in d : kv[1] = k

DictGet(d, k) == IF DictHas(d, k) THEN (CHOOSE kv \in d : kv[1] = k)[2] ELSE None

DictSet(d, k, v) == {kv \in d : kv[1] # k} \cup {<<k, v>>}

DictPop(d, k) == {kv \in d : kv[1] # k}

LAST == "last_context"

----------------------------------------------------------------------------
(* The state file: json.dumps / json.loads over a text of tokens *)

OtherKey == "other"

(* the keys a state file of the model may hold, in json.dumps' sorted order *)
KeyOrder == <<LAST, OtherKey>>

RECURSIVE DumpMembers(_, _, _)
DumpMembers(state, i, first) ==
    IF i > Len(KeyOrder) THEN <<>>
    ELSE IF DictHas(state, KeyOrder[i])
         THEN (IF first THEN <<>> ELSE <<",">>)
              \o <<KeyOrder[i], ":", "\"">> \o DictGet(state, KeyOrder[i]) \o <<"\"">>
              \o DumpMembers(state, i + 1, FALSE)
         ELSE DumpMembers(state, i + 1, first)

(* json.dumps(state, sort_keys=True) of a mapping of strings *)
Dumps(state) == <<"{">> \o DumpMembers(state, 1, TRUE) \o <<"}">>

(* JSON values before str(): a string, or a token that is no string *)
Scalars == {"5", "null", "true"}

JStr(v) == [t |-> "str", v |-> v]

JScalar(tok) == [t |-> tok, v |-> <<>>]

(* str(value) *)
PyStr(j) ==
    CASE j.t = "str" -> j.v
      [] j.t = "5" -> <<"5">>
      [] j.t = "null" -> <<"N", "o", "n", "e">>
      [] j.t = "true" -> <<"T", "r", "u", "e">>

ParseFail == [ok |-> FALSE, isdict |-> FALSE, dict |-> {}]

RECURSIVE CloseQuote(_, _)
CloseQuote(text, j) ==
    IF j > Len(text) THEN 0
    ELSE IF text[j] = "\"" THEN j ELSE CloseQuote(text, j + 1)

ValueAt(text, i) ==
    IF i > Len(text) THEN [ok |-> FALSE, val |-> JScalar("null"), next |-> i]
    ELSE IF text[i] = "\""
         THEN LET j == CloseQuote(text, i + 1)
              IN  IF j = 0 THEN [ok |-> FALSE, val |-> JScalar("null"), next |-> i]
                  ELSE [ok |-> TRUE, val |-> JStr(SubSeq(text, i + 1, j - 1)), next |-> j + 1]
    ELSE IF text[i] \in Scalars
         THEN [ok |-> TRUE, val |-> JScalar(text[i]), next |-> i + 1]
    ELSE [ok |-> FALSE, val |-> JScalar("null"), next |-> i]

RECURSIVE Members(_, _, _)
Members(text, i, acc) ==
    IF i + 1 > Len(text) THEN ParseFail
    ELSE IF text[i] \notin {LAST, OtherKey} \/ text[i + 1] # ":" THEN ParseFail
    ELSE LET v == ValueAt(text, i + 2)
             got == DictSet(acc, text[i], v.val)
         IN  IF ~v.ok \/ v.next > Len(text) THEN ParseFail
             ELSE IF text[v.next] = "}"
                  THEN IF v.next = Len(text)
                       THEN [ok |-> TRUE, isdict |-> TRUE, dict |-> got]
                       ELSE ParseFail
             ELSE IF text[v.next] = "," THEN Members(text, v.next + 1, got)
             ELSE ParseFail

(* json.loads: a failure, a value that is no object, or an object *)
Parse(text) ==
    IF Len(text) = 0 THEN ParseFail
    ELSE IF text = <<"{", "}">> THEN [ok |-> TRUE, isdict |-> TRUE, dict |-> {}]
    ELSE IF text[1] = "{" THEN Members(text, 2, {})
    ELSE IF text = <<"[", "]">> THEN [ok |-> TRUE, isdict |-> FALSE, dict |-> {}]
    ELSE LET v == ValueAt(text, 1)
         IN  IF v.ok /\ v.next = Len(text) + 1
             THEN [ok |-> TRUE, isdict |-> FALSE, dict |-> {}]
             ELSE ParseFail

ParseOk(text) == Parse(text).ok

Loads(text) == Parse(text).dict

state_strings_raw(state) == {<<kv[1], kv[2].v>> : kv \in state}

(* {str(key): str(value) for key, value in state.items()} *)
state_strings(state) == {<<kv[1], PyStr(kv[2])>> : kv \in state}

load_state(f) ==
    IF ~f.exists THEN {}
    ELSE IF ~ParseOk(f.text) THEN {}
    ELSE IF ~Parse(f.text).isdict THEN {}
    ELSE state_strings(Loads(f.text))

(* `except Exception:` around read_text, json.loads and the coercion *)
ExceptException == TRUE

(* TRUE when an exception leaves load_state: json.loads fails inside the try *)
load_state_raises(f) ==
    LET failsInTry == f.exists /\ ~ParseOk(f.text)
    IN  failsInTry /\ ~ExceptException

get_last_context(f) == DictGet(load_state(f), LAST)

NoFile == [exists |-> FALSE, text |-> <<>>]

FileOf(state) == [exists |-> TRUE, text |-> Dumps(state)]

(* open(path, "w"): the file is created or truncated to length 0 *)
OpenTruncate(f) == [exists |-> TRUE, text |-> <<>>]

(* write at offset 0 of this invocation's own file description, then close *)
WriteAt0(f, text) ==
    [exists |-> TRUE,
     text |-> text \o SubSeq(f.text, Len(text) + 1, Len(f.text))]

----------------------------------------------------------------------------
(* config.toml and load_labels *)

(* an entry of [contexts]: a table or not, and what its env key holds *)
Entry(n, d, e) == [name |-> n, isdict |-> d, env |-> e]

NoEnv == [t |-> "missing", v |-> <<>>]

(* kind: "absent", "corrupt" (no TOML), "nocontexts" (no [contexts] table), "toml" *)
Cfg(k, t, es) == [kind |-> k, tomllib |-> t, entries |-> es]

Configs ==
    { Cfg("absent", TRUE, {}),
      Cfg("toml", TRUE, {Entry(AllNames[1], TRUE, JStr(EnvProd)),
                         Entry(AllNames[2], TRUE, JStr(EnvDev))}),
      Cfg("toml", TRUE, {Entry(AllNames[1], TRUE, JStr(EnvProdMixed)),
                         Entry(AllNames[2], TRUE, JStr(EnvProduction)),
                         Entry(AllNames[3], TRUE, JScalar("5"))}) }

EntryTable_any(e) == TRUE

(* `if not isinstance(cfg, dict): continue` *)
EntryTable(e) == e.isdict

(* `if isinstance(env, str)` *)
EnvIsStr(e) == e.env.t = "str"

(* TRUE when load_labels reaches its loop over the entries of [contexts] *)
LabelsLoop(c) == c.tomllib /\ c.kind = "toml"

load_labels(c) ==
    IF ~c.tomllib THEN {}
    ELSE IF c.kind = "absent" THEN {}
    ELSE IF c.kind = "corrupt" THEN {}
    ELSE IF c.kind = "nocontexts" THEN {}
    ELSE {<<e.name, e.env.v>> : e \in {x \in c.entries : EntryTable(x) /\ EnvIsStr(x)}}

(* TRUE when an exception leaves load_labels: cfg.get on an entry that is no table *)
load_labels_raises(c) ==
    LabelsLoop(c) /\ (\E e \in c.entries : EntryTable(e) /\ ~e.isdict)

LowerChar(ch) ==
    CASE ch = "P" -> "p"
      [] ch = "R" -> "r"
      [] ch = "O" -> "o"
      [] ch = "D" -> "d"
      [] OTHER -> ch

Lower_id(s) == s

Lower(s) == [i \in 1..Len(s) |-> LowerChar(s[i])]

(* warn_if_prod: TRUE when the warning is printed on stderr *)
warn_if_prod(context, c) ==
    LET labels == load_labels(c)
        env == DictGet(labels, context)
    IN  IF ~DictHas(labels, context) THEN FALSE
        ELSE Lower(env) = EnvProd

(* the line a switch prints on stdout: <<label or None, name>> *)
RenderSwitch(new_current, c) ==
    LET labels == load_labels(c)
    IN  <<DictGet(labels, new_current), new_current>>

----------------------------------------------------------------------------
(* kubectl, as seen through run_kubectl: return code 0 or not *)

get_current_context(avail, cur) == IF ~avail THEN None ELSE cur

UseOk_unchecked(avail, cs, name) == TRUE

UseOk(avail, cs, name) == avail /\ name \in cs

RenameOk(avail, cs, old, new) == avail /\ old \in cs /\ new \notin cs

DeleteOk(avail, cs, name) == avail /\ name \in cs

RECURSIVE SortedList(_, _)
SortedList(cs, i) ==
    IF i > Len(AllNames) THEN <<>>
    ELSE (IF AllNames[i] \in cs THEN <<AllNames[i]>> ELSE <<>>) \o SortedList(cs, i + 1)

get_contexts(cs) == SortedList(cs, 1)

----------------------------------------------------------------------------
(* Invocations *)

Commands ==
    {[op |-> "list", a1 |-> None, a2 |-> None],
     [op |-> "current", a1 |-> None, a2 |-> None]}
    \cup {[op |-> "switch", a1 |-> t, a2 |-> None] : t \in Names \cup {Dash}}
    \cup {[op |-> "rename", a1 |-> o, a2 |-> n] : o \in Names, n \in Names}
    \cup {[op |-> "delete", a1 |-> n, a2 |-> None] : n \in Names}

IdleLoc ==
    [cmd |-> [op |-> "none", a1 |-> None, a2 |-> None],
     avail |-> TRUE,
     current |-> None,
     last |-> None,
     raw |-> NoFile,
     labels |-> {},
     state |-> {},
     new_state |-> {},
     new_current |-> None,
     contexts |-> <<>>,
     adapter |-> "none",
     exit |-> 0,
     err |-> "none",
     out |-> <<>>,
     warned |-> FALSE]

(* main: the first call of each command *)
FirstPc(cmd) ==
    CASE cmd.op = "list" -> "ls_get"
      [] cmd.op = "current" -> "cur_get"
      [] cmd.op = "switch" -> "sw_cur"
      [] cmd.op = "rename" -> "rn_call"
      [] cmd.op = "delete" -> "dl_load"

(* History: when the invocation that p ran just before this one was a successful
   toggle, the current and the last context that toggle started from *)
NoToggle == [was |-> FALSE, cur |-> None, last |-> None]

ToggleBefore(p) ==
    IF pc[p] = "done" /\ loc[p].cmd.op = "switch" /\ loc[p].cmd.a1 = Dash /\ loc[p].exit = 0
    THEN [was |-> TRUE, cur |-> pre[p].cur, last |-> get_last_context(pre[p].file)]
    ELSE NoToggle

(* History: the invocation that p ran just before this one was a successful
   normal switch to the context that was current already *)
SwitchToCurrentBefore(p) ==
    /\ pc[p] = "done" /\ loc[p].cmd.op = "switch" /\ loc[p].cmd.a1 # Dash
    /\ loc[p].exit = 0
    /\ pre[p].cur = loc[p].cmd.a1

Init ==
    /\ ctxs \in SUBSET Names
    /\ kcur \in ctxs \cup {None}
    /\ file \in {NoFile} \cup {FileOf(s) : s \in {{}} \cup {{<<LAST, n>>} : n \in Names}}
    /\ config \in Configs
    /\ pc = [p \in Procs |-> "idle"]
    /\ loc = [p \in Procs |-> IdleLoc]
    /\ pre = [p \in Procs |-> [cur |-> None, file |-> NoFile, ctxs |-> {}, tg |-> NoToggle, sw |-> FALSE]]
    /\ writer = "none"

Finish(p, l, code, e) ==
    /\ pc' = [pc EXCEPT ![p] = "done"]
    /\ loc' = [loc EXCEPT ![p] = [l EXCEPT !.exit = code, !.err = e]]

Goto(p, l, label) ==
    /\ pc' = [pc EXCEPT ![p] = label]
    /\ loc' = [loc EXCEPT ![p] = l]

(* main(): parse the arguments and dispatch *)
Invoke(p, cmd, avail) ==
    /\ loc' = [loc EXCEPT ![p] = [IdleLoc EXCEPT !.cmd = cmd, !.avail = avail]]
    /\ pc' = [pc EXCEPT ![p] = FirstPc(cmd)]
    /\ pre' = [pre EXCEPT ![p] = [cur |-> kcur, file |-> file, ctxs |-> ctxs,
                                  tg |-> ToggleBefore(p), sw |-> SwitchToCurrentBefore(p)]]
    /\ UNCHANGED <<ctxs, kcur, file, config, writer>>

Start(p) ==
    /\ pc[p] \in {"idle", "done"}
    /\ \E cmd \in Commands, avail \in BOOLEAN : Invoke(p, cmd, avail)

----------------------------------------------------------------------------
(* switch_context_command *)

SwitchName_first(l) == IF l.cmd.a1 = Dash THEN AllNames[1] ELSE l.cmd.a1

(* the name handed to use_context: the persisted last context for "-" *)
SwitchName(l) == IF l.cmd.a1 = Dash THEN l.last ELSE l.cmd.a1

RecordNeeded_never(current) == FALSE

(* `if current is not None: record_last_context(paths, current)` *)
RecordNeeded(current) == current # None

record_new_state_keep(state, current) == state

(* record_last_context: dict(state) with last_context set *)
record_new_state(state, current) == DictSet(state, LAST, current)

AfterUse_ignore(ok, current) ==
    IF current # None THEN "rec_load" ELSE "requery"

(* where a switch goes after use_context returned *)
AfterUse(ok, current) ==
    IF ~ok THEN "done"
    ELSE IF RecordNeeded(current) THEN "rec_load" ELSE "requery"

ToggleMissing_never(last) == FALSE

(* `if last is None`: nothing to toggle to *)
ToggleMissing(last) == last = None

SwCur(p) ==
    /\ pc[p] = "sw_cur"
    /\ LET l == [loc[p] EXCEPT !.current = get_current_context(loc[p].avail, kcur)]
       IN  Goto(p, l, IF l.cmd.a1 = Dash THEN "tg_last" ELSE "sw_use")
    /\ UNCHANGED <<ctxs, kcur, file, config, pre, writer>>

TgLast(p) ==
    /\ pc[p] = "tg_last"
    /\ LET l == [loc[p] EXCEPT !.raw = file, !.last = get_last_context(file)]
       IN  IF ToggleMissing(l.last)
           THEN Finish(p, l, 1, "nolast")
           ELSE Goto(p, l, "sw_use")
    /\ UNCHANGED <<ctxs, kcur, file, config, pre, writer>>

SwUse(p) ==
    /\ pc[p] = "sw_use"
    /\ LET name == SwitchName(loc[p])
           ok == UseOk(loc[p].avail, ctxs, name)
           l == [loc[p] EXCEPT !.adapter = IF ok THEN "ok" ELSE "failed"]
           next == AfterUse(ok, l.current)
       IN  /\ kcur' = IF ok THEN name ELSE kcur
           /\ IF next = "done"
              THEN Finish(p, l, 1, "adapter")
              ELSE Goto(p, l, next)
    /\ UNCHANGED <<ctxs, file, config, pre, writer>>

record_skips_always(current) == TRUE

(* record_last_context: `if current is None: return` *)
record_skips(current) == current = None

RecLoad(p) ==
    /\ pc[p] = "rec_load"
    /\ LET state == load_state(file)
           l == [loc[p] EXCEPT !.raw = file, !.state = state,
                               !.new_state = record_new_state(state, loc[p].current)]
       IN  IF record_skips(loc[p].current)
           THEN Goto(p, loc[p], "requery")
           ELSE Goto(p, l, "save_open")
    /\ UNCHANGED <<ctxs, kcur, file, config, pre, writer>>

(* save_state: write_text opens the file for writing, which truncates it ... *)
SaveOpen(p) ==
    /\ pc[p] = "save_open"
    /\ file' = OpenTruncate(file)
    /\ Goto(p, loc[p], "save_write")
    /\ UNCHANGED <<ctxs, kcur, config, pre, writer>>

(* ... and then writes the serialized mapping and closes *)
SaveWrite(p) ==
    /\ pc[p] = "save_write"
    /\ file' = WriteAt0(file, Dumps(loc[p].new_state))
    /\ writer' = p
    /\ IF loc[p].cmd.op = "switch"
       THEN Goto(p, loc[p], "requery")
       ELSE Finish(p, loc[p], 0, "none")
    /\ UNCHANGED <<ctxs, kcur, config, pre>>

Requery(p) ==
    /\ pc[p] = "requery"
    /\ LET l == [loc[p] EXCEPT !.new_current = get_current_context(loc[p].avail, kcur)]
       IN  IF l.new_current = None
           THEN Finish(p, l, 0, "none")
           ELSE Goto(p, l, "render")
    /\ UNCHANGED <<ctxs, kcur, file, config, pre, writer>>

Render(p) ==
    /\ pc[p] = "render"
    /\ LET l == [loc[p] EXCEPT !.out = <<RenderSwitch(loc[p].new_current, config)>>,
                               !.warned = warn_if_prod(loc[p].new_current, config)]
       IN  Finish(p, l, 0, "none")
    /\ UNCHANGED <<ctxs, kcur, file, config, pre, writer>>

----------------------------------------------------------------------------
(* list_contexts_command and current_context_command *)

ListLine_samemark(name, current, last, labels) ==
    <<name = current, name = current, DictGet(labels, name), name>>

(* one printed line per context: <<is_current, is_last, label or None, name>> *)
ListLine(name, current, last, labels) ==
    <<name = current, (last # None) /\ (name = last), DictGet(labels, name), name>>

ListLines(contexts, current, last, labels) ==
    [i \in 1..Len(contexts) |-> ListLine(contexts[i], current, last, labels)]

LsGet(p) ==
    /\ pc[p] = "ls_get"
    /\ IF loc[p].avail
       THEN Goto(p, [loc[p] EXCEPT !.contexts = get_contexts(ctxs), !.adapter = "ok"], "ls_cur")
       ELSE Finish(p, [loc[p] EXCEPT !.adapter = "failed"], 1, "adapter")
    /\ UNCHANGED <<ctxs, kcur, file, config, pre, writer>>

LsCur(p) ==
    /\ pc[p] = "ls_cur"
    /\ Goto(p, [loc[p] EXCEPT !.current = get_current_context(loc[p].avail, kcur)], "ls_last")
    /\ UNCHANGED <<ctxs, kcur, file, config, pre, writer>>

LsLast(p) ==
    /\ pc[p] = "ls_last"
    /\ Goto(p, [loc[p] EXCEPT !.raw = file, !.last = get_last_context(file)], "ls_print")
    /\ UNCHANGED <<ctxs, kcur, file, config, pre, writer>>

LsPrint(p) ==
    /\ pc[p] = "ls_print"
    /\ LET l == loc[p]
       IN  Finish(p, [l EXCEPT !.out = ListLines(l.contexts, l.current, l.last,
                                                 load_labels(config))], 0, "none")
    /\ UNCHANGED <<ctxs, kcur, file, config, pre, writer>>

CurrentExit_zero(current) == 0

(* the exit status of --current *)
CurrentExit(current) == IF current = None THEN 1 ELSE 0

CurGet(p) ==
    /\ pc[p] = "cur_get"
    /\ LET current == get_current_context(loc[p].avail, kcur)
           l == [loc[p] EXCEPT !.current = current,
                               !.out = IF current = None THEN <<>> ELSE <<current>>]
       IN  Finish(p, l, CurrentExit(current), IF current = None THEN "nocurrent" ELSE "none")
    /\ UNCHANGED <<ctxs, kcur, file, config, pre, writer>>

----------------------------------------------------------------------------
(* rename_context_command *)

(* `if last == old`: the state file is rewritten *)
RenameWrites(state, old) == DictGet(state, LAST) = old

rename_new_state_same(state, new) == state

rename_new_state(state, new) == DictSet(state, LAST, new)

RnCall(p) ==
    /\ pc[p] = "rn_call"
    /\ LET old == loc[p].cmd.a1
           new == loc[p].cmd.a2
       IN  IF RenameOk(loc[p].avail, ctxs, old, new)
           THEN /\ ctxs' = (ctxs \ {old}) \cup {new}
                /\ kcur' = IF kcur = old THEN new ELSE kcur
                /\ Goto(p, [loc[p] EXCEPT !.adapter = "ok"], "rn_load")
           ELSE /\ UNCHANGED <<ctxs, kcur>>
                /\ Finish(p, [loc[p] EXCEPT !.adapter = "failed"], 1, "adapter")
    /\ UNCHANGED <<file, config, pre, writer>>

RnLoad(p) ==
    /\ pc[p] = "rn_load"
    /\ LET state == load_state(file)
           l == [loc[p] EXCEPT !.raw = file, !.state = state, !.last = DictGet(state, LAST)]
       IN  IF RenameWrites(state, l.cmd.a1)
           THEN Goto(p, [l EXCEPT !.new_state = rename_new_state(state, l.cmd.a2)],
                     "save_open")
           ELSE Finish(p, l, 0, "none")
    /\ UNCHANGED <<ctxs, kcur, file, config, pre, writer>>

----------------------------------------------------------------------------
(* delete_context_command *)

(* `if last == name`: the state file is rewritten *)
DeleteWrites(last, name) == last = name

delete_new_state_keep(state) == state

delete_new_state(state) == DictPop(state, LAST)

(* where a delete goes after delete_context returned *)
AfterDelete(ok, last, name) ==
    IF ~ok THEN "done1"
    ELSE IF DeleteWrites(last, name) THEN "save_open" ELSE "done0"

DlLoad(p) ==
    /\ pc[p] = "dl_load"
    /\ LET state == load_state(file)
       IN  Goto(p, [loc[p] EXCEPT !.raw = file, !.state = state,
                                  !.last = DictGet(state, LAST)], "dl_call")
    /\ UNCHANGED <<ctxs, kcur, file, config, pre, writer>>

DlCall(p) ==
    /\ pc[p] = "dl_call"
    /\ LET name == loc[p].cmd.a1
           ok == DeleteOk(loc[p].avail, ctxs, name)
           l == [loc[p] EXCEPT !.adapter = IF ok THEN "ok" ELSE "failed"]
           next == AfterDelete(ok, l.last, name)
       IN  /\ ctxs' = IF ok THEN ctxs \ {name} ELSE ctxs
           /\ CASE next = "done1" -> Finish(p, l, 1, "adapter")
                [] next = "done0" -> Finish(p, l, 0, "none")
                [] OTHER -> Goto(p, [l EXCEPT !.new_state = delete_new_state(l.state)], next)
    /\ UNCHANGED <<kcur, file, config, pre, writer>>

----------------------------------------------------------------------------
(* Specifications *)

Step(p) ==
    \/ SwCur(p) \/ TgLast(p) \/ SwUse(p) \/ RecLoad(p)
    \/ SaveOpen(p) \/ SaveWrite(p) \/ Requery(p) \/ Render(p)
    \/ LsGet(p) \/ LsCur(p) \/ LsLast(p) \/ LsPrint(p) \/ CurGet(p)
    \/ RnCall(p) \/ RnLoad(p) \/ DlLoad(p) \/ DlCall(p)

(* One shell: invocations run one after the other *)
Next == \E p \in SeqProcs : Start(p) \/ Step(p)

Spec == Init /\ [][Next]_vars

(* Two shells: each runs one state-touching command, the calls interleave *)
ConcCommands == {c \in Commands : c.op # "current"}

InitConc ==
    /\ Init
    /\ ctxs = Names
    /\ config = Cfg("absent", TRUE, {})

StartConc(p) ==
    /\ pc[p] = "idle"
    /\ \E cmd \in ConcCommands : Invoke(p, cmd, TRUE)

StepConc(p) ==
    \/ SwCur(p) \/ TgLast(p) \/ SwUse(p) \/ RecLoad(p)
    \/ SaveOpen(p) \/ SaveWrite(p) \/ Requery(p) \/ Render(p)
    \/ LsGet(p) \/ LsCur(p) \/ LsLast(p) \/ LsPrint(p)
    \/ RnCall(p) \/ RnLoad(p) \/ DlLoad(p) \/ DlCall(p)

NextConc == \E p \in Procs : StartConc(p) \/ StepConc(p)

SpecConc == InitConc /\ [][NextConc]_vars

----------------------------------------------------------------------------
(* Properties of one shell (Spec) *)

Done(p) == pc[p] = "done"

IsSwitch(p) == loc[p].cmd.op = "switch"

IsToggle(p) == IsSwitch(p) /\ loc[p].cmd.a1 = Dash

IsNormalSwitch(p) == IsSwitch(p) /\ loc[p].cmd.a1 # Dash

LastOf(f) == get_last_context(f)

(* C1: after a successful normal switch from a known current context A, the
   persisted last_context is A, whatever was persisted before. *)
C1_LastIsCurrentBefore ==
    \A p \in SeqProcs :
        (Done(p) /\ IsNormalSwitch(p) /\ loc[p].exit = 0 /\ pre[p].cur # None)
            => (LastOf(file) = pre[p].cur /\ kcur = loc[p].cmd.a1)

C1_Witness ==
    \E p \in SeqProcs :
        /\ Done(p) /\ IsNormalSwitch(p) /\ loc[p].exit = 0
        /\ pre[p].cur # None
        /\ pre[p].cur # loc[p].cmd.a1
        /\ LastOf(pre[p].file) \notin {None, pre[p].cur}
        /\ LastOf(file) = pre[p].cur

(* C2: a successful toggle from current A with last B leaves current B and
   last A; a second successful toggle right after it leaves current A and
   last B again. *)
C2_ToggleInvolution ==
    \A p \in SeqProcs :
        (Done(p) /\ IsToggle(p) /\ loc[p].exit = 0 /\ pre[p].cur # None)
            => /\ kcur = LastOf(pre[p].file)
               /\ LastOf(file) = pre[p].cur
               /\ (pre[p].tg.was /\ pre[p].tg.cur # None)
                    => (kcur = pre[p].tg.cur /\ LastOf(file) = pre[p].tg.last)

C2_Witness ==
    \E p \in SeqProcs :
        /\ Done(p) /\ IsToggle(p) /\ loc[p].exit = 0
        /\ pre[p].tg.was
        /\ pre[p].tg.cur # None
        /\ pre[p].tg.cur # pre[p].tg.last
        /\ kcur = pre[p].tg.cur
        /\ LastOf(file) = pre[p].tg.last

(* C3: a toggle with no persisted last_context ends with status 1 and the
   "nothing to toggle to" message, calls no adapter switch and changes neither
   the state file nor kubectl's current context. *)
C3_ToggleNothing ==
    \A p \in SeqProcs :
        (Done(p) /\ IsToggle(p) /\ LastOf(pre[p].file) = None)
            => /\ loc[p].exit = 1
               /\ loc[p].err = "nolast"
               /\ loc[p].adapter = "none"
               /\ file = pre[p].file
               /\ kcur = pre[p].cur

C3_Witness ==
    \E p \in SeqProcs :
        /\ Done(p) /\ IsToggle(p) /\ LastOf(pre[p].file) = None
        /\ loc[p].avail /\ pre[p].cur # None
        /\ loc[p].exit = 1

(* C4: a switch, toggle, rename or delete whose adapter call failed ends with
   status 1 and the state file as it was; the state file is opened for writing
   only after the adapter call of the same command succeeded. *)
C4_NoWriteOnFailure ==
    \A p \in SeqProcs :
        /\ (Done(p) /\ loc[p].cmd.op \in {"switch", "rename", "delete"}
                /\ loc[p].adapter = "failed")
              => (loc[p].exit = 1 /\ file = pre[p].file)
        /\ (pc[p] \in {"rec_load", "save_open", "save_write"}) => loc[p].adapter = "ok"

C4_Witness ==
    \E p \in SeqProcs :
        /\ Done(p) /\ IsNormalSwitch(p) /\ loc[p].adapter = "failed"
        /\ loc[p].avail
        /\ pre[p].cur # None
        /\ LastOf(pre[p].file) \notin {None, pre[p].cur}
        /\ file = pre[p].file

(* C5: after a successful rename(old, new) the persisted last_context is new
   when it was old, and the state file is untouched otherwise. *)
C5_RenameKeepsLast ==
    \A p \in SeqProcs :
        (Done(p) /\ loc[p].cmd.op = "rename" /\ loc[p].exit = 0)
            => IF LastOf(pre[p].file) = loc[p].cmd.a1
               THEN LastOf(file) = loc[p].cmd.a2
               ELSE file = pre[p].file

C5_Witness ==
    \E p \in SeqProcs :
        /\ Done(p) /\ loc[p].cmd.op = "rename" /\ loc[p].exit = 0
        /\ LastOf(pre[p].file) = loc[p].cmd.a1
        /\ LastOf(file) = loc[p].cmd.a2

(* C6: after a successful delete(name) the state file has no last_context
   entry when it was name, and the state file is untouched otherwise. *)
C6_DeleteDropsLast ==
    \A p \in SeqProcs :
        (Done(p) /\ loc[p].cmd.op = "delete" /\ loc[p].exit = 0)
            => IF LastOf(pre[p].file) = loc[p].cmd.a1
               THEN ~DictHas(load_state(file), LAST) /\ LastOf(file) = None
               ELSE file = pre[p].file

C6_Witness ==
    \E p \in SeqProcs :
        /\ Done(p) /\ loc[p].cmd.op = "delete" /\ loc[p].exit = 0
        /\ LastOf(pre[p].file) = loc[p].cmd.a1
        /\ file = FileOf({})

(* a label that reads "prod" whatever the case of its letters *)
SameLetter(x, y) ==
    \/ x = y
    \/ {x, y} \in {{"p", "P"}, {"r", "R"}, {"o", "O"}, {"d", "D"}}

IsProdLabel(env) ==
    /\ Len(env) = Len(EnvProd)
    /\ \A i \in 1..Len(EnvProd) : SameLetter(env[i], EnvProd[i])

LabelledProd(context) ==
    \E kv \in load_labels(config) : kv[1] = context /\ IsProdLabel(kv[2])

(* C7: after a successful switch or toggle the warning is printed exactly when
   kubectl's current context, asked again after the switch, is labelled "prod"
   in any case; status and bookkeeping do not depend on it. *)
C7_ProdWarning ==
    \A p \in SeqProcs :
        (Done(p) /\ IsSwitch(p) /\ loc[p].adapter = "ok")
            => /\ loc[p].warned <=> LabelledProd(kcur)
               /\ loc[p].exit = 0
               /\ kcur = (IF IsToggle(p) THEN LastOf(pre[p].file) ELSE loc[p].cmd.a1)
               /\ LastOf(file) =
                    (IF pre[p].cur # None THEN pre[p].cur ELSE LastOf(pre[p].file))

C7_Witness ==
    \E p \in SeqProcs :
        /\ Done(p) /\ IsToggle(p) /\ loc[p].adapter = "ok"
        /\ loc[p].warned
        /\ DictGet(load_labels(config), kcur) = EnvProdMixed
        /\ loc[p].exit = 0

(* what the command line of p asks kubectl to change, failing *)
AdapterFails(p) ==
    LET c == loc[p].cmd
        w == pre[p]
        a == loc[p].avail
        last == LastOf(w.file)
    IN  CASE c.op = "list" -> ~a
          [] c.op = "current" -> FALSE
          [] c.op = "switch" /\ c.a1 # Dash -> ~(a /\ c.a1 \in w.ctxs)
          [] c.op = "switch" /\ c.a1 = Dash -> last # None /\ ~(a /\ last \in w.ctxs)
          [] c.op = "rename" -> ~(a /\ c.a1 \in w.ctxs /\ c.a2 \notin w.ctxs)
          [] c.op = "delete" -> ~(a /\ c.a1 \in w.ctxs)

ReportedFailure(p) ==
    \/ IsToggle(p) /\ LastOf(pre[p].file) = None
    \/ AdapterFails(p)
    \/ loc[p].cmd.op = "current" /\ (~loc[p].avail \/ pre[p].cur = None)

(* C10: a command ends with status 1 exactly when the toggle target is
   missing, the adapter call failed or --current found no current context, and
   with status 0 otherwise. *)
C10_ExitStatus ==
    \A p \in SeqProcs :
        Done(p) => /\ loc[p].exit \in {0, 1}
                   /\ loc[p].exit = 1 <=> ReportedFailure(p)

C10_Witness ==
    \E p \in SeqProcs :
        /\ Done(p) /\ loc[p].cmd.op = "current"
        /\ loc[p].avail /\ pre[p].cur = None
        /\ loc[p].exit = 1

----------------------------------------------------------------------------
(* More properties of one shell (Spec) *)

IsList(p) == loc[p].cmd.op = "list"

(* C13: a successful list prints one line per context that kubectl returned,
   in kubectl's order; a line has the current marker exactly when its name is
   kubectl's current context, and the last marker exactly when a last_context
   is persisted and is its name. *)
C13_ListLines ==
    \A p \in SeqProcs :
        (Done(p) /\ IsList(p) /\ loc[p].exit = 0)
            => /\ Len(loc[p].out) = Cardinality(pre[p].ctxs)
               /\ Len(loc[p].out) = Len(loc[p].contexts)
               /\ {loc[p].out[i][4] : i \in 1..Len(loc[p].out)} = pre[p].ctxs
               /\ \A i \in 1..Len(loc[p].out) :
                    /\ loc[p].out[i][4] = loc[p].contexts[i]
                    /\ loc[p].out[i][1] <=> (loc[p].out[i][4] = pre[p].cur)
                    /\ loc[p].out[i][2] <=>
                         (LastOf(pre[p].file) # None
                            /\ loc[p].out[i][4] = LastOf(pre[p].file))

C13_Witness ==
    \E p \in SeqProcs :
        /\ Done(p) /\ IsList(p) /\ loc[p].exit = 0
        /\ pre[p].ctxs = {AllNames[1], AllNames[2], AllNames[3]}
        /\ pre[p].cur = AllNames[1]
        /\ LastOf(pre[p].file) = None
        /\ config.kind = "absent"
        /\ loc[p].out = <<<<TRUE, FALSE, None, AllNames[1]>>,
                          <<FALSE, FALSE, None, AllNames[2]>>,
                          <<FALSE, FALSE, None, AllNames[3]>>>>

(* the persisted last_context names no context of the kubeconfig *)
StaleLast(p) ==
    LastOf(pre[p].file) # None /\ LastOf(pre[p].file) \notin pre[p].ctxs

(* C14: with a persisted last_context that names no existing context, list
   and --current end as they do otherwise, and a toggle has use_context fail,
   ends with status 1 and leaves the state file and the current context as
   they were. *)
C14_StaleLast ==
    \A p \in SeqProcs :
        (Done(p) /\ StaleLast(p)) =>
            /\ IsToggle(p) =>
                 /\ loc[p].adapter = "failed"
                 /\ loc[p].exit = 1
                 /\ loc[p].err = "adapter"
                 /\ file = pre[p].file
                 /\ kcur = pre[p].cur
            /\ (IsList(p) /\ loc[p].avail) =>
                 /\ loc[p].exit = 0
                 /\ Len(loc[p].out) = Cardinality(pre[p].ctxs)
                 /\ \A i \in 1..Len(loc[p].out) : ~loc[p].out[i][2]
            /\ (loc[p].cmd.op = "current" /\ loc[p].avail /\ pre[p].cur # None) =>
                 (loc[p].exit = 0 /\ loc[p].out = <<pre[p].cur>>)

C14_Witness ==
    \E p \in SeqProcs :
        /\ Done(p) /\ StaleLast(p) /\ IsToggle(p)
        /\ loc[p].avail
        /\ pre[p].cur \in pre[p].ctxs
        /\ loc[p].exit = 1
        /\ LastOf(file) = LastOf(pre[p].file)

(* One shell that starts with no state file and a kubeconfig whose
   current-context, when set, is one of its contexts *)
InitFresh ==
    /\ Init
    /\ file = NoFile

SpecFresh == InitFresh /\ [][Next]_vars

(* C15: between commands, the persisted last_context, when there is one,
   names a context of the kubeconfig. *)
C15_LastExists ==
    \A p \in SeqProcs :
        (pc[p] \in {"idle", "done"} /\ LastOf(file) # None) => LastOf(file) \in ctxs

(* C16: a successful toggle made while kubectl has no current context
   switches to the persisted last_context and does not touch the state file,
   so that current and last_context are the same context; a toggle right
   after it switches to that same context again. *)
C16_ToggleFromNone ==
    \A p \in SeqProcs :
        (Done(p) /\ IsToggle(p) /\ loc[p].exit = 0) =>
            /\ pre[p].cur = None =>
                 /\ kcur = LastOf(pre[p].file)
                 /\ file = pre[p].file
                 /\ kcur = LastOf(file)
            /\ (pre[p].tg.was /\ pre[p].tg.cur = None) =>
                 /\ kcur = pre[p].tg.last
                 /\ kcur = pre[p].cur
                 /\ LastOf(file) = pre[p].tg.last

C16_Witness ==
    \E p \in SeqProcs :
        /\ Done(p) /\ IsToggle(p) /\ loc[p].exit = 0
        /\ pre[p].tg.was /\ pre[p].tg.cur = None
        /\ kcur = pre[p].cur
        /\ kcur = LastOf(file)

(* C17: a successful normal switch to the context that is already current
   records that context as last_context, whatever was persisted before, so
   that last_context is the current context; a toggle right after it stays on
   that context. *)
C17_SwitchToCurrent ==
    \A p \in SeqProcs :
        /\ (Done(p) /\ IsNormalSwitch(p) /\ loc[p].exit = 0 /\ pre[p].cur = loc[p].cmd.a1)
              => (LastOf(file) = kcur /\ kcur = pre[p].cur)
        /\ (Done(p) /\ IsToggle(p) /\ loc[p].exit = 0 /\ pre[p].sw)
              => (kcur = pre[p].cur /\ LastOf(file) = pre[p].cur)

C17_Witness ==
    \E p \in SeqProcs :
        /\ Done(p) /\ IsNormalSwitch(p) /\ loc[p].exit = 0
        /\ pre[p].cur = loc[p].cmd.a1
        /\ LastOf(pre[p].file) \notin {None, pre[p].cur}
        /\ LastOf(file) = kcur

----------------------------------------------------------------------------
(* load_state on its own: state files made from documents, whole or cut short *)

DocValues == {JStr(n) : n \in Names} \cup {JScalar(t) : t \in Scalars}

DocMembers == {<<k, v>> : k \in {LAST, OtherKey}, v \in DocValues}

Docs == UNION {[1..n -> DocMembers] : n \in 0..MaxMembers}

ValueText(j) == IF j.t = "str" THEN <<"\"">> \o j.v \o <<"\"">> ELSE <<j.t>>

RECURSIVE MembersText(_, _)
MembersText(doc, i) ==
    IF i > Len(doc) THEN <<>>
    ELSE (IF i = 1 THEN <<>> ELSE <<",">>)
         \o <<doc[i][1], ":">> \o ValueText(doc[i][2]) \o MembersText(doc, i + 1)

TextOf(doc) == <<"{">> \o MembersText(doc, 1) \o <<"}">>

Prefixes(text) == {SubSeq(text, 1, n) : n \in 0..(Len(text) - 1)}

NonObjectTexts == {<<"[", "]">>, <<"5">>, <<"null">>, <<"\"", "a", "\"">>}

LoadInputs ==
    {NoFile}
    \cup {[exists |-> TRUE, text |-> t] :
            t \in {TextOf(d) : d \in Docs}
                  \cup UNION {Prefixes(TextOf(d)) : d \in Docs}
                  \cup NonObjectTexts}

InitLoad ==
    /\ ctxs = {}
    /\ kcur = None
    /\ file \in LoadInputs
    /\ config = Cfg("absent", TRUE, {})
    /\ pc = [p \in Procs |-> "idle"]
    /\ loc = [p \in Procs |-> IdleLoc]
    /\ pre = [p \in Procs |-> [cur |-> None, file |-> NoFile, ctxs |-> {}, tg |-> NoToggle, sw |-> FALSE]]
    /\ writer = "none"

(* one call of load_state *)
LoadState(p) ==
    /\ pc[p] = "idle"
    /\ pc' = [pc EXCEPT ![p] = "loaded"]
    /\ loc' = [loc EXCEPT ![p] = [loc[p] EXCEPT
                  !.raw = file,
                  !.state = load_state(file),
                  !.err = IF load_state_raises(file) THEN "raised" ELSE "none"]]
    /\ UNCHANGED <<ctxs, kcur, file, config, pre, writer>>

NextLoad == \E p \in SeqProcs : LoadState(p)

SpecLoad == InitLoad /\ [][NextLoad]_vars

(* what a document reads as: for each key its last member, as a string *)
AsString(j) ==
    IF j.t = "str" THEN j.v
    ELSE IF j.t = "5" THEN <<"5">>
    ELSE IF j.t = "null" THEN <<"N", "o", "n", "e">>
    ELSE <<"T", "r", "u", "e">>

ExpectedOf(doc) ==
    {<<doc[i][1], AsString(doc[i][2])>> :
        i \in {j \in 1..Len(doc) : \A k \in (j + 1)..Len(doc) : doc[k][1] # doc[j][1]}}

DocTable == {<<TextOf(d), ExpectedOf(d)>> : d \in Docs}

ExpectedState(f) ==
    IF f.exists /\ (\E e \in DocTable : e[1] = f.text)
    THEN (CHOOSE e \in DocTable : e[1] = f.text)[2]
    ELSE {}

(* C11: load_state raises nothing; for a file that is absent, cut short or no
   JSON object it returns the empty mapping, and for a JSON object it returns
   the object's mapping with every value turned into a string. *)
C11_LoadStateTotal ==
    \A p \in SeqProcs :
        pc[p] = "loaded" => (loc[p].err = "none" /\ loc[p].state = ExpectedState(loc[p].raw))

C11_Witness ==
    \E p \in SeqProcs :
        /\ pc[p] = "loaded"
        /\ loc[p].raw.exists
        /\ loc[p].state = {<<LAST, <<"N", "o", "n", "e">>>>, <<OtherKey, <<"5">>>>}

----------------------------------------------------------------------------
(* load_labels on its own: config files of every shape *)

EntryShapes ==
    {[isdict |-> FALSE, env |-> NoEnv],
     [isdict |-> TRUE, env |-> NoEnv],
     [isdict |-> TRUE, env |-> JScalar("5")],
     [isdict |-> TRUE, env |-> JStr(EnvProd)],
     [isdict |-> TRUE, env |-> JStr(EnvDev)]}

(* at most one entry per context name *)
EntrySets ==
    {{Entry(n, f[n].isdict, f[n].env) : n \in D} :
        f \in [Names -> EntryShapes], D \in SUBSET Names}

LabelInputs ==
    {Cfg(k, t, es) : k \in {"absent", "corrupt", "nocontexts", "toml"},
                     t \in BOOLEAN, es \in EntrySets}

InitLabels ==
    /\ ctxs = Names
    /\ kcur = None
    /\ file = NoFile
    /\ config \in LabelInputs
    /\ pc = [p \in Procs |-> "idle"]
    /\ loc = [p \in Procs |-> IdleLoc]
    /\ pre = [p \in Procs |-> [cur |-> None, file |-> NoFile, ctxs |-> {}, tg |-> NoToggle, sw |-> FALSE]]
    /\ writer = "none"

(* one call of load_labels, and of warn_if_prod for each context *)
LoadLabels(p) ==
    /\ pc[p] = "idle"
    /\ pc' = [pc EXCEPT ![p] = "labelled"]
    /\ loc' = [loc EXCEPT ![p] = [loc[p] EXCEPT
                  !.labels = load_labels(config),
                  !.warned = \E n \in Names : warn_if_prod(n, config),
                  !.err = IF load_labels_raises(config) THEN "raised" ELSE "none"]]
    /\ UNCHANGED <<ctxs, kcur, file, config, pre, writer>>

NextLabels == \E p \in SeqProcs : LoadLabels(p)

SpecLabels == InitLabels /\ [][NextLabels]_vars

(* a config file with nothing that has the shape  [contexts.NAME] env = "..." *)
NoUsableLabel(c) ==
    \/ ~c.tomllib
    \/ c.kind \in {"absent", "corrupt", "nocontexts"}
    \/ \A e \in c.entries : ~e.isdict \/ e.env.t # "str"

(* C12: load_labels raises nothing; a config file that is absent, no TOML or
   of another shape gives the empty table, so that no context is labelled and
   nothing is warned about; entries of another shape are left out and the
   others are kept. *)
C12_LoadLabelsTotal ==
    \A p \in SeqProcs :
        pc[p] = "labelled" =>
            /\ loc[p].err = "none"
            /\ NoUsableLabel(config) => (loc[p].labels = {} /\ ~loc[p].warned)
            /\ (config.tomllib /\ config.kind = "toml") =>
                 \A n \in Names :
                    (\E e \in config.entries : e.name = n /\ e.isdict /\ e.env.t = "str")
                        <=> DictHas(loc[p].labels, n)

C12_Witness ==
    \E p \in SeqProcs :
        /\ pc[p] = "labelled"
        /\ config.tomllib /\ config.kind = "toml"
        /\ \E e \in config.entries : ~e.isdict
        /\ \E e \in config.entries : e.isdict /\ e.env = JScalar("5")
        /\ NoUsableLabel(config)
        /\ loc[p].labels = {}

----------------------------------------------------------------------------
(* Properties of two shells (SpecConc) *)

Mappings == {{}} \cup {{<<LAST, n>>} : n \in Names}

WholeFiles == {NoFile} \cup {FileOf(m) : m \in Mappings}

(* C8: whatever load_state reads is a whole state file: the file as it was
   before a save_state or as it is after it (or no file at all), never a
   file that save_state has only begun to write. *)
C8_ReadsSeeWholeFile ==
    \A p \in Procs : loc[p].raw \in WholeFiles

(* C9: once both invocations have ended, the state file reads back as exactly
   the mapping that the invocation which saved last handed to save_state. *)
C9_LastWriterWins ==
    ((\A p \in Procs : pc[p] = "done") /\ writer # "none")
        => load_state(file) = loc[writer].new_state

====
